---- MODULE Spec2Model ----
(***************************************************************************)
(* Trivia API (src/app.py): pagination, question mutation, category        *)
(* listing and the quiz selector, over a question store.                   *)
(*                                                                         *)
(* A question row is [id, category]; the text, answer and difficulty       *)
(* columns play no part in any handler's control flow.  A JSON value that  *)
(* may be absent, a number or a string is a record [kind, val] with kind   *)
(* in {"none", "int", "str"}.                                              *)
(***************************************************************************)
EXTENDS Integers, Sequences, FiniteSets, TLC

VARIABLES
    questions,   \* the Question table: a set of rows [id, category]
    next_id,     \* the next identifier the store assigns on insert
    before,      \* the Question table when the last request started
    response,    \* the last response sent, with the request it answers
    inflight,    \* a quiz request between its count query and its fetch
    session,     \* a quiz client: its category and the ids it has been served
    pg           \* an application of paginate_data: items, page, result

vars == <<questions, next_id, before, response, inflight, session, pg>>

----------------------------------------------------------------------------
(* Bounds *)

MaxId == 3          \* identifiers the store hands out in Spec
MaxPage == 2        \* page numbers requested in Spec and SpecConc
MaxConcId == 2      \* identifiers of the seeded store in SpecConc
MaxSessionId == 3   \* identifiers of the seeded store in SpecSession
MaxItems == 25      \* longest item list in SpecPaginate
MaxPageArg == 3     \* largest page argument in SpecPaginate

(* Program constant *)
QUESTIONS_PER_PAGE == 10

(* Category rows present in the Category table (no handler changes it),   *)
(* and the category values a question payload may carry: one of them has  *)
(* no Category row.                                                        *)
Categories == {1, 2}
PayloadCategories == Categories \cup {3}
UnknownCategory == CHOOSE c \in PayloadCategories : c \notin Categories

NoRow == [id |-> 0, category |-> 0]       \* Python None in place of a row

NoneVal == [kind |-> "none", val |-> 0]   \* key absent: dict.get gives None
IntVal(n) == [kind |-> "int", val |-> n]
StrVal == [kind |-> "str", val |-> 0]     \* the non-numeric string "abc"

(* quiz_category.id as a client may send it *)
CategoryIdValues ==
    {NoneVal, StrVal} \cup {IntVal(n) : n \in {0} \cup PayloadCategories}

----------------------------------------------------------------------------
(* Helpers *)

Min(a, b) == IF a < b THEN a ELSE b
Max(a, b) == IF a > b THEN a ELSE b

(* Python's s[start:end] on a list, negative indices included *)
PyIndex(i, n) == IF i < 0 THEN Max(i + n, 0) ELSE Min(i, n)

PySlice(s, start, end) ==
    LET lo == PyIndex(start, Len(s))
        hi == PyIndex(end, Len(s))
    IN  IF lo >= hi THEN <<>> ELSE SubSeq(s, lo + 1, hi)

(* order_by(Question.id).all() *)
RECURSIVE OrderById(_)
OrderById(S) ==
    IF S = {} THEN <<>>
    ELSE LET m == CHOOSE r \in S : \A o \in S : r.id <= o.id
         IN  <<m>> \o OrderById(S \ {m})

(* Question.format(): the dictionary sent to the client *)
format(q) == [id |-> q.id, category |-> q.category]

(* Mutant of paginate_data: the page number taken as zero-based *)
paginate_data_zero_based(page, given_data) ==
    LET start == page * QUESTIONS_PER_PAGE
        end == start + QUESTIONS_PER_PAGE
        formatted_data == [i \in 1..Len(given_data) |-> format(given_data[i])]
    IN  PySlice(formatted_data, start, end)

paginate_data(page, given_data) ==
    LET start == (page - 1) * QUESTIONS_PER_PAGE
        end == start + QUESTIONS_PER_PAGE
        formatted_data == [i \in 1..Len(given_data) |-> format(given_data[i])]
    IN  PySlice(formatted_data, start, end)

(* status 404 stands for abort(404) raised inside the helper *)
get_paginted_all_questions(qs, page) ==
    LET current_question == paginate_data(page, OrderById(qs))
    IN  IF Len(current_question) = 0
        THEN [status |-> 404, questions |-> <<>>, total |-> 0]
        ELSE [status |-> 200, questions |-> current_question,
              total |-> Cardinality(qs)]

----------------------------------------------------------------------------
(* Requests and responses *)

NoReq == [id |-> 0, page |-> 0, cat |-> NoneVal, prev |-> {}]

(* The error handlers' envelopes: message by status *)
Message(status) ==
    CASE status = 404 -> "resource not found"
      [] status = 422 -> "unprocessable"
      [] status = 400 -> "bad request"
      [] status = 405 -> "method not allowed"
      [] status = 500 -> "something went wrong"
      [] OTHER -> ""

Respond(op, req, status, question, page_items, total) ==
    [op |-> op, req |-> req, status |-> status, success |-> (status = 200),
     message |-> Message(status), question |-> question,
     questions |-> page_items, total |-> total]

NoResponse == Respond("none", NoReq, 200, NoRow, <<>>, 0)

----------------------------------------------------------------------------
(* Handlers, as functions of the store and the request.  Each gives the   *)
(* store it leaves and the status and body it answers with.               *)

(* GET /questions *)
retrieve_questions(qs, page) == get_paginted_all_questions(qs, page)

(* Mutant of delete_question: abort(404) for an absent id escapes the try *)
delete_question_404_escapes(qs, question_id, page) ==
    LET found == {q \in qs : q.id = question_id}
        after == qs \ found
        r == get_paginted_all_questions(after, page)
    IN  IF found = {}
        THEN [store |-> qs, status |-> 404, questions |-> <<>>, total |-> 0]
        ELSE IF r.status = 404
        THEN [store |-> after, status |-> 422, questions |-> <<>>, total |-> 0]
        ELSE [store |-> after, status |-> 200, questions |-> r.questions,
              total |-> r.total]

(* DELETE /questions/<id>: abort(404) and the 404 of the re-pagination    *)
(* are both raised inside the try and caught by the bare except.          *)
delete_question(qs, question_id, page) ==
    LET found == {q \in qs : q.id = question_id}
        after == qs \ found
        r == get_paginted_all_questions(after, page)
    IN  IF found = {}
        THEN [store |-> qs, status |-> 422, questions |-> <<>>, total |-> 0]
        ELSE IF r.status = 404
        THEN [store |-> after, status |-> 422, questions |-> <<>>, total |-> 0]
        ELSE [store |-> after, status |-> 200, questions |-> r.questions,
              total |-> r.total]

(* The Question constructor followed by insert(): the store assigns nid *)
insert(qs, nid, category) == qs \cup {[id |-> nid, category |-> category]}

(* POST /questions: a payload the Question constructor rejects raises     *)
(* inside the try; so does the 404 of the re-pagination, after insert().  *)
create_question(qs, nid, payload, page) ==
    LET after == insert(qs, nid, payload.category)
        r == get_paginted_all_questions(after, page)
    IN  IF ~payload.valid
        THEN [store |-> qs, status |-> 422, questions |-> <<>>, total |-> 0]
        ELSE IF r.status = 404
        THEN [store |-> after, status |-> 422, questions |-> <<>>, total |-> 0]
        ELSE [store |-> after, status |-> 200, questions |-> r.questions,
              total |-> r.total]

(* GET /categories/<id>/questions: Category.query.get gives None for an   *)
(* id with no row, and None.type raises outside any try: the Exception    *)
(* handler answers 500.                                                    *)
retrieve_questions_for_category(qs, category_id, page) ==
    LET rows == OrderById({q \in qs : q.category = category_id})
        current_question == paginate_data(page, rows)
    IN  IF Len(current_question) = 0
        THEN [status |-> 404, questions |-> <<>>, total |-> 0]
        ELSE IF category_id \notin Categories
        THEN [status |-> 500, questions |-> <<>>, total |-> 0]
        ELSE [status |-> 200, questions |-> current_question,
              total |-> Cardinality(qs)]

(* Mutant of Truthy: the test "is not None" in place of truthiness *)
Truthy_is_not_none(v) == v.kind # "none"

(* Python truthiness of quiz_category.get('id') *)
Truthy(v) == (v.kind = "int" /\ v.val # 0) \/ v.kind = "str"

(* The store compares the integer category column with the value: a     *)
(* non-numeric string makes the query fail.                               *)
CategoryComparable(v) == v.kind = "int"

(* Mutant of quiz_rows: the exclusion filter is left out *)
quiz_rows_no_exclusion(qs, prev, cat) ==
    OrderById(IF Truthy(cat)
              THEN {q \in qs : q.category = cat.val}
              ELSE qs)

(* The rows of the quiz query against a store, in identifier order.  The *)
(* query has no ORDER BY; random indexing over any order gives the same   *)
(* set of outcomes.                                                       *)
quiz_rows(qs, prev, cat) ==
    LET unseen == {q \in qs : q.id \notin prev}
    IN  OrderById(IF Truthy(cat)
                  THEN {q \in unseen : q.category = cat.val}
                  ELSE unseen)

quiz_fails(cat) == Truthy(cat) /\ ~CategoryComparable(cat)

quiz_count(qs, prev, cat) == Len(quiz_rows(qs, prev, cat))

(* random.randrange(0, questions_count) *)
RandRange(questions_count) ==
    IF questions_count = 0 THEN {0} ELSE 0..(questions_count - 1)

(* Mutant of quiz_question: no test of questions_count, so that          *)
(* randrange(0, 0) raises on an empty eligible set.                       *)
quiz_question_no_count_test(questions_count, fetched, prev, cat, rand) ==
    LET rows == quiz_rows(fetched, prev, cat)
    IN  IF quiz_fails(cat) \/ questions_count = 0 \/ rand + 1 > Len(rows)
        THEN [status |-> 422, question |-> NoRow]
        ELSE [status |-> 200, question |-> format(rows[rand + 1])]

(* Mutant of quiz_question: no try/except, so that an exception reaches   *)
(* the Exception handler.                                                 *)
quiz_question_no_except(questions_count, fetched, prev, cat, rand) ==
    LET rows == quiz_rows(fetched, prev, cat)
    IN  IF quiz_fails(cat)
        THEN [status |-> 500, question |-> NoRow]
        ELSE IF questions_count = 0
        THEN [status |-> 200, question |-> NoRow]
        ELSE IF rand + 1 > Len(rows)
        THEN [status |-> 500, question |-> NoRow]
        ELSE [status |-> 200, question |-> format(rows[rand + 1])]

(* POST /quizzes.  questions_count is what the count query returned,     *)
(* fetched the store questions[rand] reads (LIMIT 1 OFFSET rand:          *)
(* IndexError when no row is left at that offset).  Every exception ends  *)
(* in abort(422).                                                         *)
quiz_question(questions_count, fetched, prev, cat, rand) ==
    LET rows == quiz_rows(fetched, prev, cat)
    IN  IF quiz_fails(cat)
        THEN [status |-> 422, question |-> NoRow]
        ELSE IF questions_count = 0
        THEN [status |-> 200, question |-> NoRow]
        ELSE IF rand + 1 > Len(rows)
        THEN [status |-> 422, question |-> NoRow]
        ELSE [status |-> 200, question |-> format(rows[rand + 1])]

----------------------------------------------------------------------------
(* Requests handled one at a time *)

Idle == [active |-> FALSE, prev |-> {}, cat |-> NoneVal, rand |-> 0,
         questions_count |-> 0]
NoSession == [cat |-> NoneVal, seen |-> <<>>, done |-> FALSE, failed |-> FALSE]
NoPg == [items |-> <<>>, page |-> 1, out |-> <<>>, applied |-> FALSE]

Ids == 1..MaxId
Pages == 1..MaxPage

Init ==
    /\ questions = {}
    /\ next_id = 1
    /\ before = {}
    /\ response = NoResponse
    /\ inflight = Idle
    /\ session = NoSession
    /\ pg = NoPg

RetrieveQuestions(page) ==
    LET r == retrieve_questions(questions, page)
    IN  /\ before' = questions
        /\ response' = Respond("list", [NoReq EXCEPT !.page = page], r.status,
                               NoRow, r.questions, r.total)
        /\ UNCHANGED <<questions, next_id, inflight, session, pg>>

DeleteQuestion(question_id, page) ==
    LET r == delete_question(questions, question_id, page)
    IN  /\ before' = questions
        /\ questions' = r.store
        /\ response' = Respond("delete",
                               [NoReq EXCEPT !.id = question_id, !.page = page],
                               r.status, NoRow, r.questions, r.total)
        /\ UNCHANGED <<next_id, inflight, session, pg>>

CreateQuestion(payload, page) ==
    LET r == create_question(questions, next_id, payload, page)
    IN  /\ payload.valid => next_id <= MaxId
        /\ before' = questions
        /\ questions' = r.store
        /\ next_id' = IF payload.valid THEN next_id + 1 ELSE next_id
        /\ response' = Respond("create",
                               [NoReq EXCEPT !.id = IF payload.valid
                                                    THEN next_id ELSE 0,
                                             !.page = page,
                                             !.cat = IntVal(payload.category)],
                               r.status, NoRow, r.questions, r.total)
        /\ UNCHANGED <<inflight, session, pg>>

RetrieveQuestionsForCategory(category_id, page) ==
    LET r == retrieve_questions_for_category(questions, category_id, page)
    IN  /\ before' = questions
        /\ response' = Respond("category",
                               [NoReq EXCEPT !.page = page,
                                             !.cat = IntVal(category_id)],
                               r.status, NoRow, r.questions, r.total)
        /\ UNCHANGED <<questions, next_id, inflight, session, pg>>

QuizQuestion(prev, cat) ==
    \E rand \in RandRange(IF quiz_fails(cat) THEN 0
                          ELSE quiz_count(questions, prev, cat)) :
        LET r == quiz_question(IF quiz_fails(cat) THEN 0
                               ELSE quiz_count(questions, prev, cat),
                               questions, prev, cat, rand)
        IN  /\ before' = questions
            /\ response' = Respond("quiz", [NoReq EXCEPT !.prev = prev,
                                                         !.cat = cat],
                                   r.status, r.question, <<>>, 0)
            /\ UNCHANGED <<questions, next_id, inflight, session, pg>>

Payloads ==
    [valid : {TRUE}, category : PayloadCategories]
        \cup {[valid |-> FALSE, category |-> 0]}

Next ==
    \/ \E page \in Pages : RetrieveQuestions(page)
    \/ \E question_id \in Ids, page \in Pages :
           DeleteQuestion(question_id, page)
    \/ \E payload \in Payloads, page \in Pages : CreateQuestion(payload, page)
    \/ \E category_id \in PayloadCategories, page \in Pages :
           RetrieveQuestionsForCategory(category_id, page)
    \/ \E prev \in SUBSET Ids, cat \in CategoryIdValues : QuizQuestion(prev, cat)

Spec == Init /\ [][Next]_vars

----------------------------------------------------------------------------
(* Properties of requests handled one at a time (Spec) *)

IsQuiz == response.op = "quiz"
WellFormedCategory(cat) == cat.kind \in {"none", "int"}

(* A category restriction is asked for: an id that is present and not 0 *)
CategoryGiven(cat) == cat.kind = "int" /\ cat.val # 0

(* The eligible set as the specification words it: not excluded, and of   *)
(* the category when one is given and is not 0.                           *)
EligibleSet(qs, prev, cat) ==
    {q \in qs : /\ q.id \notin prev
                /\ CategoryGiven(cat) => q.category = cat.val}

(* Every answer the quiz can give for a request against a store, over all *)
(* draws of the random index.                                             *)
QuizOutcomes(qs, prev, cat) ==
    {quiz_question(quiz_count(qs, prev, cat), qs, prev, cat, rand).question :
        rand \in RandRange(quiz_count(qs, prev, cat))} \ {NoRow}

(* C1: a quiz response that carries a question never carries one whose id *)
(* is in the request's previous_questions.                                *)
C1_QuizNeverReturnsExcluded ==
    (IsQuiz /\ response.question # NoRow)
        => response.question.id \notin response.req.prev

C1_Witness ==
    /\ IsQuiz
    /\ response.question # NoRow
    /\ \E q \in questions : q.id \in response.req.prev

(* C2: with a truthy quiz_category.id every question the quiz can return  *)
(* has that category; with id 0 or absent the questions it can return are *)
(* exactly the non-excluded questions, whatever their category.           *)
C2_CategoryRestriction ==
    (IsQuiz /\ WellFormedCategory(response.req.cat)) =>
        LET prev == response.req.prev
            cat == response.req.cat
            unseen == {q \in questions : q.id \notin prev}
        IN  /\ response.question # NoRow => response.question \in questions
            /\ CategoryGiven(cat) =>
                   /\ response.question # NoRow
                          => response.question.category = cat.val
                   /\ QuizOutcomes(questions, prev, cat)
                          = {q \in unseen : q.category = cat.val}
            /\ ~CategoryGiven(cat) => QuizOutcomes(questions, prev, cat) = unseen

C2_Witness ==
    /\ IsQuiz
    /\ response.req.cat = IntVal(0)
    /\ response.question # NoRow
    /\ \E q \in questions :
           q.id \notin response.req.prev
               /\ q.category # response.question.category

(* C3: a quiz request with a well-formed category answers success with no *)
(* question when its eligible set is empty, and success with a question   *)
(* when it is not.                                                        *)
C3_EmptyEligibleIsNone ==
    (IsQuiz /\ WellFormedCategory(response.req.cat)) =>
        LET eligible == EligibleSet(questions, response.req.prev,
                                    response.req.cat)
        IN  /\ response.status = 200 /\ response.success
            /\ eligible = {} <=> response.question = NoRow
            /\ eligible # {} => response.question \in eligible

C3_Witness ==
    /\ IsQuiz
    /\ WellFormedCategory(response.req.cat)
    /\ questions # {}
    /\ EligibleSet(questions, response.req.prev, response.req.cat) = {}
    /\ response.status = 200
    /\ response.question = NoRow

(* C5: DELETE of an id that is not stored answers 422 "unprocessable" and *)
(* leaves the stored questions as they were.                              *)
C5_DeleteAbsentIs422 ==
    (response.op = "delete" /\ \A q \in before : q.id # response.req.id) =>
        /\ response.status = 422
        /\ response.message = "unprocessable"
        /\ questions = before

C5_Witness ==
    /\ response.op = "delete"
    /\ before # {}
    /\ \A q \in before : q.id # response.req.id
    /\ response.status = 422

(* C6: GET /categories/<id>/questions answers 404 whenever the requested  *)
(* page of the category's questions is empty or the category has no row.  *)
C6_UnknownCategoryIs404 ==
    response.op = "category" =>
        LET rows == OrderById({q \in questions :
                                   q.category = response.req.cat.val})
            empty_page == PySlice(rows,
                              (response.req.page - 1) * QUESTIONS_PER_PAGE,
                              response.req.page * QUESTIONS_PER_PAGE) = <<>>
        IN  (empty_page \/ response.req.cat.val \notin Categories)
                => response.status = 404

C9_ErrorLeavesStoreUnchanged ==
    (response.op \in {"delete", "create"} /\ response.status = 422)
        => questions = before

----------------------------------------------------------------------------
(* Concurrent requests (SpecConc): a quiz request is two store reads, its *)
(* count query and its fetch of questions[rand]; DELETE and POST requests *)
(* of other clients commit between them.                                  *)

ConcIds == 1..MaxConcId

ConcStores ==
    {S \in SUBSET [id : ConcIds, category : Categories] :
        \A a, b \in S : a.id = b.id => a = b}

InitConc ==
    /\ questions \in ConcStores
    /\ next_id = MaxConcId + 1
    /\ before = questions
    /\ response = NoResponse
    /\ inflight = Idle
    /\ session = NoSession
    /\ pg = NoPg

(* Lines 151-161: build the query, count, draw the index *)
QuizCount(prev, cat) ==
    /\ ~inflight.active
    /\ LET questions_count == IF quiz_fails(cat) THEN 0
                              ELSE quiz_count(questions, prev, cat)
       IN  \E rand \in RandRange(questions_count) :
               inflight' = [active |-> TRUE, prev |-> prev, cat |-> cat,
                            rand |-> rand,
                            questions_count |-> questions_count]
    /\ UNCHANGED <<questions, next_id, before, response, session, pg>>

(* Lines 162-173: fetch the row at the drawn index and answer *)
QuizFetch ==
    /\ inflight.active
    /\ LET r == quiz_question(inflight.questions_count, questions,
                              inflight.prev, inflight.cat, inflight.rand)
       IN  response' = Respond("quiz", [NoReq EXCEPT !.prev = inflight.prev,
                                                     !.cat = inflight.cat],
                               r.status, r.question, <<>>, 0)
    /\ inflight' = Idle
    /\ UNCHANGED <<questions, next_id, before, session, pg>>

NextConc ==
    \/ \E prev \in SUBSET ConcIds, cat \in CategoryIdValues :
           QuizCount(prev, cat)
    \/ QuizFetch
    \/ \E question_id \in ConcIds, page \in Pages :
           DeleteQuestion(question_id, page)

SpecConc == InitConc /\ [][NextConc]_vars

(* C10: a quiz request with a well-formed category id that runs beside    *)
(* DELETE requests answers success (a non-excluded question or none),     *)
(* never an error.                                                        *)
C10_QuizSucceedsBesideDeletes ==
    (IsQuiz /\ WellFormedCategory(response.req.cat)) =>
        /\ response.status = 200
        /\ response.question # NoRow
               => response.question.id \notin response.req.prev

----------------------------------------------------------------------------
(* A quiz session (SpecSession): one client, a fixed category, a store    *)
(* that does not change; each request carries the ids served so far.      *)

SessionIds == 1..MaxSessionId

SeededStores ==
    {S \in SUBSET [id : SessionIds, category : Categories] :
        \A a, b \in S : a.id = b.id => a = b}

SessionCategories == {c \in CategoryIdValues : WellFormedCategory(c)}

Range(f) == {f[i] : i \in DOMAIN f}

InitSession ==
    /\ questions \in SeededStores
    /\ next_id = MaxSessionId + 1
    /\ before = questions
    /\ response = NoResponse
    /\ inflight = Idle
    /\ \E cat \in SessionCategories : session = [NoSession EXCEPT !.cat = cat]
    /\ pg = NoPg

(* The client posts its history, the server answers from the store and    *)
(* the request alone, the client records the answer.                      *)
SessionRequest ==
    /\ ~session.done /\ ~session.failed
    /\ Len(session.seen) <= MaxSessionId
    /\ \E rand \in RandRange(quiz_count(questions, Range(session.seen),
                                        session.cat)) :
        LET prev == Range(session.seen)
            r == quiz_question(quiz_count(questions, prev, session.cat),
                               questions, prev, session.cat, rand)
        IN  /\ response' = Respond("quiz", [NoReq EXCEPT !.prev = prev,
                                                         !.cat = session.cat],
                                   r.status, r.question, <<>>, 0)
            /\ session' =
                   IF r.status # 200 THEN [session EXCEPT !.failed = TRUE]
                   ELSE IF r.question = NoRow
                   THEN [session EXCEPT !.done = TRUE]
                   ELSE [session EXCEPT !.seen = Append(@, r.question.id)]
    /\ before' = questions
    /\ UNCHANGED <<questions, next_id, inflight, pg>>

NextSession == SessionRequest

(* The client keeps asking until it is told that no question is left *)
SpecSession == InitSession /\ [][NextSession]_vars /\ WF_vars(NextSession)

(* The questions of the session's category: all of them for 0 or absent *)
SessionQuestions ==
    {q \in questions :
        CategoryGiven(session.cat) => q.category = session.cat.val}

C8_SessionInv ==
    /\ ~session.failed
    /\ \A i, j \in 1..Len(session.seen) :
           session.seen[i] = session.seen[j] => i = j
    /\ Range(session.seen) \subseteq {q.id : q \in SessionQuestions}
    /\ session.done => Len(session.seen) = Cardinality(SessionQuestions)

(* C8: in a session that sends the ids served so far, with a fixed        *)
(* category and an unchanged store, no question is served twice, "none"   *)
(* is reached, and reached after exactly as many questions as the         *)
(* category holds; the requests leave the server's state as it was.       *)
C8_QuizSession ==
    /\ []C8_SessionInv
    /\ <>session.done
    /\ [][questions' = questions /\ next_id' = next_id
              /\ inflight' = inflight]_vars

C8_Witness ==
    /\ session.done
    /\ Len(session.seen) >= 2
    /\ CategoryGiven(session.cat)
    /\ \E q \in questions : q.category # session.cat.val

----------------------------------------------------------------------------
(* paginate_data on its own (SpecPaginate): item lists of every length up *)
(* to MaxItems, page arguments from 0 to MaxPageArg.                      *)

ItemLists ==
    {OrderById({[id |-> i, category |-> 1] : i \in lo..hi}) :
        lo \in 1..(MaxItems + 1), hi \in 0..MaxItems}

InitPaginate ==
    /\ questions = {}
    /\ next_id = 1
    /\ before = {}
    /\ response = NoResponse
    /\ inflight = Idle
    /\ session = NoSession
    /\ \E items \in ItemLists, page \in 0..MaxPageArg :
           pg = [NoPg EXCEPT !.items = items, !.page = page]

ApplyPaginate ==
    /\ ~pg.applied
    /\ pg' = [pg EXCEPT !.out = paginate_data(pg.page, pg.items),
                        !.applied = TRUE]
    /\ UNCHANGED <<questions, next_id, before, response, inflight, session>>

NextPaginate == ApplyPaginate

SpecPaginate == InitPaginate /\ [][NextPaginate]_vars

(* C4: for a page number p >= 1 paginate_data returns                     *)
(* items[(p-1)*10 : p*10] in order: at most 10 items, and none if and     *)
(* only if (p-1)*10 >= |items|.                                           *)
C4_PaginateIsSlice ==
    (pg.applied /\ pg.page >= 1) =>
        LET first == (pg.page - 1) * 10
            n == Len(pg.items)
            size == IF first >= n THEN 0
                    ELSE IF n - first > 10 THEN 10 ELSE n - first
        IN  /\ Len(pg.out) <= 10
            /\ pg.out = [i \in 1..size |-> pg.items[first + i]]
            /\ pg.out = <<>> <=> first >= n

C4_Witness ==
    /\ pg.applied
    /\ pg.page = 2
    /\ Len(pg.items) > 10
    /\ Len(pg.out) \in 1..9
    /\ pg.out[1] = pg.items[11]

====
